---- MODULE Spec2Model ----
(***************************************************************************)
(* Model of src/cli/back/main.rs: the leader-timed bundle submission of    *)
(* main() and the pending-transaction loop of print_packet_stream().       *)
(*                                                                         *)
(* main() is the program's entry point.  print_packet_stream() has no      *)
(* caller in the file; it is modelled as a second entry point whose        *)
(* arguments (an open stream, a connected client) are given.  Every        *)
(* .await of the source is one step of the model and every .expect() /     *)
(* .unwrap() / index that can panic is a transition to pc = "panicked".    *)
(***************************************************************************)
EXTENDS Integers, Sequences, FiniteSets, TLC

VARIABLES
    entry,              \* the function being run: "main", "print_packet_stream", "build"
    pc,                 \* position in that function
    overflow_checks,    \* build profile: TRUE = subtraction panics on underflow, FALSE = it wraps
    panic_msg,          \* message of the panic that ended the run, "" if none
    num_txs,            \* main: let num_txs
    lamports,           \* main: let lamports
    tip_accounts,       \* main: accounts returned by get_tip_accounts
    bundle_results_subscription, \* main: TRUE while the result stream is held open
    next_leader,        \* main: last NextScheduledLeaderResponse, <<current_slot, next_leader_slot>>
    num_slots,          \* main: let num_slots (NoSlots before the first probe)
    is_leader_slot,     \* main: let mut is_leader_slot
    probes,             \* completed get_next_scheduled_leader calls (saturating)
    sleeps,             \* completed sleep(500ms) calls (saturating)
    tip_account,        \* main: let tip_account
    blockhash,          \* main: let blockhash (NoHash before the fetch)
    fetches,            \* completed get_latest_blockhash calls (saturating)
    transaction,        \* main: let mut transaction (NoTx before it is built)
    txs,                \* main: let txs, the bundle signatures handed to the send
    signatures,         \* main: let signatures, the wire transactions handed to the send
    submissions,        \* calls of send_bundle_with_confirmation (saturating)
    in_flight,          \* calls of send_bundle_with_confirmation not yet returned
    result_state,       \* correlator state of the submitted bundle identity
    late_event,         \* TRUE once a result event arrived for a terminal identity
    stream,             \* print_packet_stream: "open", "closed", "errored"
    last_poll,          \* print_packet_stream: what the last timeout(..).await matched
    reads,              \* print_packet_stream: items the stream yielded (saturating)
    surfaced,           \* print_packet_stream: signatures logged for the last notification
    notification        \* print_packet_stream: packets of the last notification

vars == <<entry, pc, overflow_checks, panic_msg, num_txs, lamports, tip_accounts,
          bundle_results_subscription, next_leader, num_slots, is_leader_slot,
          probes, sleeps, tip_account, blockhash, fetches, transaction, txs,
          signatures, submissions, in_flight, result_state, late_event,
          stream, last_poll, reads, surfaced, notification>>

(***************************************************************************)
(* Bounds of the model.                                                    *)
(***************************************************************************)
MaxSlot == 3            \* largest slot number (u64::MAX in the source)
MaxCount == 3           \* the history counters saturate here
MaxTipAccounts == 2     \* longest get_tip_accounts answer
MaxBlockhash == 2       \* distinct recency tokens the ledger can return
MaxPackets == 2         \* longest pending-transaction notification
MaxNumTxsArg == 6       \* largest num_txs given to the bundle construction

(***************************************************************************)
(* Program constants.                                                      *)
(***************************************************************************)
NumTxs == 2             \* let num_txs = 2
Lamports == 1000        \* let lamports = 1000
LamportsToSend == 1000  \* let lamports_to_send = 1_000
LeaderThreshold == 2    \* is_leader_slot = num_slots <= 2
NoHash == 0             \* Hash::default(), the blockhash of an unsigned transaction
MaxBundleSize == 5      \* "Number of transactions in the bundle (must be <= 5)"

SlotModulus == MaxSlot + 1
Slots == 0 .. MaxSlot
NoSlots == SlotModulus  \* no difference computed yet (not a value of WrappingSub)
NoLeader == <<>>
Blockhashes == 1 .. MaxBlockhash
NoTx == [none |-> TRUE]
NoKey == <<"Pubkey", "">>

Inc(n) == IF n < MaxCount THEN n + 1 ELSE n

(***************************************************************************)
(* u64 subtraction next_leader_slot - current_slot.  With overflow checks  *)
(* the operation panics when next < current; without them it wraps.        *)
(***************************************************************************)
Underflows(next, cur) == next < cur
WrappingSub(next, cur) == (next - cur + SlotModulus) % SlotModulus

IsLeaderSlot_Inverted(n) == n >= LeaderThreshold
IsLeaderSlot(n) == n <= LeaderThreshold

(***************************************************************************)
(* Pubkey::from_str: only base58 strings of a key parse.                   *)
(***************************************************************************)
TipStrings == {"TipA", "TipB", "not-base58"}
Base58Keys == {"TipA", "TipB", "payer", "GKxpQ3ZS"}
ParsesAsPubkey(s) == s \in Base58Keys
PubkeyFromStr(s) == <<"Pubkey", s>>
PayerPubkey == PubkeyFromStr("payer")
RecipientPubkey == PubkeyFromStr("GKxpQ3ZS")

RECURSIVE SeqsUpTo(_, _)
SeqsUpTo(S, n) ==
    IF n = 0 THEN {<<>>}
    ELSE LET shorter == SeqsUpTo(S, n - 1)
         IN  shorter \cup {Append(s, x) : s \in {t \in shorter : Len(t) = n - 1}, x \in S}

TipAccountLists == SeqsUpTo(TipStrings, MaxTipAccounts)

(***************************************************************************)
(* Transactions: system_instruction::transfer, Transaction::new_with_payer,*)
(* Transaction::sign and bincode::serialize.                               *)
(***************************************************************************)
Transfer(from, to, amount) ==
    [program |-> "system", kind |-> "transfer", from |-> from, to |-> to, amount |-> amount]

NewWithPayer(instructions, payer) ==
    [instructions |-> instructions, payer |-> payer,
     recent_blockhash |-> NoHash, signatures |-> <<>>]

MessageOf(tx) ==
    [instructions |-> tx.instructions, payer |-> tx.payer,
     recent_blockhash |-> tx.recent_blockhash]

SignatureBy(signer, message) == [signer |-> signer, message |-> message]

Sign(tx, signer, hash) ==
    LET stamped == [tx EXCEPT !.recent_blockhash = hash]
    IN  [stamped EXCEPT !.signatures = <<SignatureBy(signer, MessageOf(stamped))>>]

\* bincode: the signature vector (length-prefixed), then the message
Serialize(tx) == <<Len(tx.signatures)>> \o tx.signatures \o <<MessageOf(tx)>>

\* The transaction main builds and signs (lines 190-202).
BuildTransaction(tip, tip_lamports, hash) ==
    LET transfer_instruction == Transfer(PayerPubkey, RecipientPubkey, LamportsToSend)
        jito_tip_instruction == Transfer(PayerPubkey, tip, tip_lamports)
        unsigned == NewWithPayer(<<transfer_instruction, jito_tip_instruction>>, PayerPubkey)
    IN  Sign(unsigned, PayerPubkey, hash)

\* The two vectors handed to the send (lines 203-212).  n is num_txs, which the
\* code binds and never reads: the bundle has one transaction whatever n is.
BundleSignatures_BeforeSigning(n, tx) ==
    <<SignatureBy(tx.payer, MessageOf(NewWithPayer(tx.instructions, tx.payer)))>>
BundleSignatures(n, tx) == <<tx.signatures[1]>>
WireTransactions(n, tx) == <<Serialize(tx)>>

(***************************************************************************)
(* Groups of variables.                                                    *)
(***************************************************************************)
config == <<entry, overflow_checks, num_txs, lamports>>
gateVars == <<next_leader, num_slots, is_leader_slot, probes, sleeps>>
buildVars == <<tip_account, blockhash, fetches, transaction, txs, signatures>>
sendVars == <<submissions, in_flight, result_state, late_event>>
packetVars == <<stream, last_poll, reads, surfaced, notification>>

\* A panic unwinds the run: nothing runs afterwards and the streams are dropped.
Abort(msg) ==
    /\ pc' = "panicked"
    /\ panic_msg' = msg
    /\ bundle_results_subscription' = FALSE

(***************************************************************************)
(* main                                                                    *)
(***************************************************************************)
ReadKeypairsOk ==
    /\ entry = "main" /\ pc = "read_keypairs"
    /\ pc' = "connect"
    /\ UNCHANGED <<config, panic_msg, tip_accounts, bundle_results_subscription,
                   gateVars, buildVars, sendVars, packetVars>>

ReadKeypairsErr ==
    /\ entry = "main" /\ pc = "read_keypairs"
    /\ Abort("reads keypair at path")
    /\ UNCHANGED <<config, tip_accounts, gateVars, buildVars, sendVars, packetVars>>

ConnectOk ==
    /\ entry = "main" /\ pc = "connect"
    /\ pc' = "get_tip_accounts"
    /\ UNCHANGED <<config, panic_msg, tip_accounts, bundle_results_subscription,
                   gateVars, buildVars, sendVars, packetVars>>

ConnectErr ==
    /\ entry = "main" /\ pc = "connect"
    /\ Abort("connects to searcher client")
    /\ UNCHANGED <<config, tip_accounts, gateVars, buildVars, sendVars, packetVars>>

GetTipAccountsOk(accounts) ==
    /\ entry = "main" /\ pc = "get_tip_accounts"
    /\ tip_accounts' = accounts
    /\ pc' = "get_balance"
    /\ UNCHANGED <<config, panic_msg, bundle_results_subscription,
                   gateVars, buildVars, sendVars, packetVars>>

GetTipAccountsErr ==
    /\ entry = "main" /\ pc = "get_tip_accounts"
    /\ Abort("gets connected leaders")
    /\ UNCHANGED <<config, tip_accounts, gateVars, buildVars, sendVars, packetVars>>

GetBalanceOk ==
    /\ entry = "main" /\ pc = "get_balance"
    /\ pc' = "subscribe"
    /\ UNCHANGED <<config, panic_msg, tip_accounts, bundle_results_subscription,
                   gateVars, buildVars, sendVars, packetVars>>

GetBalanceErr ==
    /\ entry = "main" /\ pc = "get_balance"
    /\ Abort("reads balance")
    /\ UNCHANGED <<config, tip_accounts, gateVars, buildVars, sendVars, packetVars>>

SubscribeOk_Dropped ==
    /\ entry = "main" /\ pc = "subscribe"
    /\ bundle_results_subscription' = FALSE
    /\ pc' = "probe"
    /\ UNCHANGED <<config, panic_msg, tip_accounts,
                   gateVars, buildVars, sendVars, packetVars>>

SubscribeOk ==
    /\ entry = "main" /\ pc = "subscribe"
    /\ bundle_results_subscription' = TRUE
    /\ pc' = "probe"
    /\ UNCHANGED <<config, panic_msg, tip_accounts,
                   gateVars, buildVars, sendVars, packetVars>>

SubscribeErr ==
    /\ entry = "main" /\ pc = "subscribe"
    /\ Abort("subscribe to bundle results")
    /\ UNCHANGED <<config, tip_accounts, gateVars, buildVars, sendVars, packetVars>>

\* while !is_leader_slot { get_next_scheduled_leader ... num_slots ... } up to the sleep
ProbeOk(cur, next) ==
    /\ entry = "main" /\ pc = "probe"
    /\ next_leader' = <<cur, next>>
    /\ probes' = Inc(probes)
    /\ IF overflow_checks /\ Underflows(next, cur)
       THEN /\ Abort("attempt to subtract with overflow")
            /\ UNCHANGED <<num_slots, is_leader_slot>>
       ELSE /\ num_slots' = WrappingSub(next, cur)
            /\ is_leader_slot' = IsLeaderSlot(WrappingSub(next, cur))
            /\ pc' = "sleep"
            /\ UNCHANGED <<panic_msg, bundle_results_subscription>>
    /\ UNCHANGED <<config, tip_accounts, sleeps, buildVars, sendVars, packetVars>>

ProbeErr_Ignored ==
    /\ entry = "main" /\ pc = "probe"
    /\ probes' = Inc(probes)
    /\ panic_msg' = "gets next scheduled leader"
    /\ pc' = "sleep"
    /\ UNCHANGED <<config, tip_accounts, bundle_results_subscription, next_leader,
                   num_slots, is_leader_slot, sleeps, buildVars, sendVars, packetVars>>

ProbeErr ==
    /\ entry = "main" /\ pc = "probe"
    /\ probes' = Inc(probes)
    /\ Abort("gets next scheduled leader")
    /\ UNCHANGED <<config, tip_accounts, next_leader, num_slots, is_leader_slot,
                   sleeps, buildVars, sendVars, packetVars>>

\* sleep(500ms) returns and the while condition is evaluated
SleepDone_AlwaysProceeds ==
    /\ entry = "main" /\ pc = "sleep"
    /\ sleeps' = Inc(sleeps)
    /\ pc' = "pick_tip"
    /\ UNCHANGED <<config, panic_msg, tip_accounts, bundle_results_subscription,
                   next_leader, num_slots, is_leader_slot, probes,
                   buildVars, sendVars, packetVars>>

SleepDone ==
    /\ entry = "main" /\ pc = "sleep"
    /\ sleeps' = Inc(sleeps)
    /\ pc' = IF is_leader_slot THEN "pick_tip" ELSE "probe"
    /\ UNCHANGED <<config, panic_msg, tip_accounts, bundle_results_subscription,
                   next_leader, num_slots, is_leader_slot, probes,
                   buildVars, sendVars, packetVars>>

PickTipAccount_Fixed ==
    /\ entry = "main" /\ pc = "pick_tip"
    /\ tip_account' = PubkeyFromStr("TipB")
    /\ pc' = "get_blockhash"
    /\ UNCHANGED <<config, panic_msg, tip_accounts, bundle_results_subscription,
                   gateVars, blockhash, fetches, transaction, txs, signatures,
                   sendVars, packetVars>>

\* Pubkey::from_str(tip_accounts[0].as_str()).unwrap()
PickTipAccount ==
    /\ entry = "main" /\ pc = "pick_tip"
    /\ IF Len(tip_accounts) = 0
       THEN /\ Abort("index out of bounds")
            /\ UNCHANGED tip_account
       ELSE IF ~ParsesAsPubkey(tip_accounts[1])
       THEN /\ Abort("called Result::unwrap() on an Err value")
            /\ UNCHANGED tip_account
       ELSE /\ tip_account' = PubkeyFromStr(tip_accounts[1])
            /\ pc' = "get_blockhash"
            /\ UNCHANGED <<panic_msg, bundle_results_subscription>>
    /\ UNCHANGED <<config, tip_accounts, gateVars, blockhash, fetches, transaction,
                   txs, signatures, sendVars, packetVars>>

GetBlockhashOk(hash) ==
    /\ entry = "main" /\ pc = "get_blockhash"
    /\ blockhash' = hash
    /\ fetches' = Inc(fetches)
    /\ pc' = "build"
    /\ UNCHANGED <<config, panic_msg, tip_accounts, bundle_results_subscription,
                   gateVars, tip_account, transaction, txs, signatures,
                   sendVars, packetVars>>

GetBlockhashErr ==
    /\ entry = "main" /\ pc = "get_blockhash"
    /\ fetches' = Inc(fetches)
    /\ Abort("get blockhash")
    /\ UNCHANGED <<config, tip_accounts, gateVars, tip_account, blockhash,
                   transaction, txs, signatures, sendVars, packetVars>>

\* lines 190-212: build, sign, serialize, collect the two vectors
BuildAndSign_DefaultHash ==
    /\ pc = "build"
    /\ LET tx == BuildTransaction(tip_account, lamports, NoHash)
       IN  /\ transaction' = tx
           /\ txs' = BundleSignatures(num_txs, tx)
           /\ signatures' = WireTransactions(num_txs, tx)
    /\ pc' = "send"
    /\ UNCHANGED <<config, panic_msg, tip_accounts, bundle_results_subscription,
                   gateVars, tip_account, blockhash, fetches, sendVars, packetVars>>

BuildAndSign ==
    /\ pc = "build"
    /\ LET tx == BuildTransaction(tip_account, lamports, blockhash)
       IN  /\ transaction' = tx
           /\ txs' = BundleSignatures(num_txs, tx)
           /\ signatures' = WireTransactions(num_txs, tx)
    /\ pc' = "send"
    /\ UNCHANGED <<config, panic_msg, tip_accounts, bundle_results_subscription,
                   gateVars, tip_account, blockhash, fetches, sendVars, packetVars>>

\* send_bundle_with_confirmation(..) is called: the bundle goes out
SendBundle ==
    /\ entry = "main" /\ pc = "send"
    /\ submissions' = Inc(submissions)
    /\ in_flight' = in_flight + 1
    /\ pc' = "confirming"
    /\ UNCHANGED <<config, panic_msg, tip_accounts, bundle_results_subscription,
                   gateVars, buildVars, result_state, late_event, packetVars>>

\* .await returns Ok: main returns and drops the subscription
ConfirmOk ==
    /\ entry = "main" /\ pc = "confirming"
    /\ in_flight' = in_flight - 1
    /\ pc' = "done"
    /\ bundle_results_subscription' = FALSE
    /\ UNCHANGED <<config, panic_msg, tip_accounts, gateVars, buildVars,
                   submissions, result_state, late_event,
                   packetVars>>

ConfirmErr_Resend ==
    /\ entry = "main" /\ pc = "confirming"
    /\ in_flight' = in_flight - 1
    /\ pc' = "send"
    /\ UNCHANGED <<config, panic_msg, tip_accounts, bundle_results_subscription,
                   gateVars, buildVars, submissions, result_state, late_event,
                   packetVars>>

\* .await returns Err: .expect("Sending bundle failed")
ConfirmErr ==
    /\ entry = "main" /\ pc = "confirming"
    /\ in_flight' = in_flight - 1
    /\ Abort("Sending bundle failed")
    /\ UNCHANGED <<config, tip_accounts, gateVars, buildVars, submissions, result_state, late_event,
                   packetVars>>

(***************************************************************************)
(* Inside send_bundle_with_confirmation: the result correlator, which is   *)
(* not in this file.  Per bundle identity: Submitted (initial), Confirmed   *)
(* on Accepted, Failed on Rejected or Dropped; an event for an identity     *)
(* that is already terminal is ignored.                                    *)
(***************************************************************************)
Outcomes == {"Accepted", "Rejected", "Dropped"}
TerminalStates == {"Confirmed", "Failed"}

Transition(state, outcome) ==
    IF state \in TerminalStates THEN state
    ELSE IF outcome = "Accepted" THEN "Confirmed"
    ELSE "Failed"

ResultEvent_Overwrites(outcome) ==
    /\ entry = "main" /\ pc = "confirming"
    /\ result_state' = (IF outcome = "Accepted" THEN "Confirmed" ELSE "Failed")
    /\ late_event' = (late_event \/ result_state \in TerminalStates)
    /\ UNCHANGED <<config, pc, panic_msg, tip_accounts, bundle_results_subscription,
                   gateVars, buildVars, submissions, in_flight, packetVars>>

ResultEvent(outcome) ==
    /\ entry = "main" /\ pc = "confirming"
    /\ result_state' = Transition(result_state, outcome)
    /\ late_event' = (late_event \/ result_state \in TerminalStates)
    /\ UNCHANGED <<config, pc, panic_msg, tip_accounts, bundle_results_subscription,
                   gateVars, buildVars, submissions, in_flight, packetVars>>

MainNext ==
    \/ ReadKeypairsOk \/ ReadKeypairsErr
    \/ ConnectOk \/ ConnectErr
    \/ (\E accounts \in TipAccountLists : GetTipAccountsOk(accounts))
    \/ GetTipAccountsErr
    \/ GetBalanceOk \/ GetBalanceErr
    \/ SubscribeOk \/ SubscribeErr
    \/ (\E cur \in Slots, next \in Slots : ProbeOk(cur, next))
    \/ ProbeErr
    \/ SleepDone
    \/ PickTipAccount
    \/ (\E hash \in Blockhashes : GetBlockhashOk(hash))
    \/ GetBlockhashErr
    \/ BuildAndSign
    \/ SendBundle
    \/ (\E outcome \in Outcomes : ResultEvent(outcome))
    \/ ConfirmOk \/ ConfirmErr

Idle ==
    /\ overflow_checks \in BOOLEAN
    /\ panic_msg = ""
    /\ tip_accounts = <<>>
    /\ bundle_results_subscription = FALSE
    /\ next_leader = NoLeader
    /\ num_slots = NoSlots
    /\ is_leader_slot = FALSE
    /\ probes = 0
    /\ sleeps = 0
    /\ fetches = 0
    /\ transaction = NoTx
    /\ txs = <<>>
    /\ signatures = <<>>
    /\ submissions = 0
    /\ in_flight = 0
    /\ result_state = "Submitted"
    /\ late_event = FALSE
    /\ stream = "open"
    /\ last_poll = "none"
    /\ reads = 0
    /\ surfaced = <<>>
    /\ notification = <<>>

MainInit ==
    /\ entry = "main"
    /\ pc = "read_keypairs"
    /\ num_txs = NumTxs
    /\ lamports = Lamports
    /\ tip_account = NoKey
    /\ blockhash = NoHash
    /\ Idle

(***************************************************************************)
(* print_packet_stream                                                     *)
(***************************************************************************)
Packets == {"garbage", "packetA", "packetB", "packetNoSig"}
Notifications == SeqsUpTo(Packets, MaxPackets)

\* versioned_tx_from_packet: Some(tx) for a packet that deserializes, else None
\* (an Option is a sequence of at most one element).  Deserialization does not
\* sanitize: a packet can decode to a transaction whose signatures are empty.
VersionedTxFromPacket(p) ==
    IF p = "garbage" THEN <<>>
    ELSE IF p = "packetNoSig" THEN <<[signatures |-> <<>>, message |-> p]>>
    ELSE <<[signatures |-> <<[signer |-> "unknown", message |-> p]>>, message |-> p]>>

RECURSIVE FilterMapDecode(_)
FilterMapDecode(packets) ==
    IF packets = <<>> THEN <<>>
    ELSE VersionedTxFromPacket(Head(packets)) \o FilterMapDecode(Tail(packets))

\* for tx in transactions { info!(tx.signatures[0]) }: the signatures logged
\* until the loop ends or tx.signatures[0] is out of bounds
RECURSIVE LoggedSignatures(_)
LoggedSignatures(transactions) ==
    IF transactions = <<>> THEN <<>>
    ELSE IF Len(Head(transactions).signatures) = 0 THEN <<>>
    ELSE <<Head(transactions).signatures[1]>> \o LoggedSignatures(Tail(transactions))

IndexPanics(transactions) ==
    \E i \in 1 .. Len(transactions) : Len(transactions[i].signatures) = 0

\* Ok(Some(Ok(notification)))
Notification(packets) ==
    /\ entry = "print_packet_stream" /\ pc = "wait"
    /\ stream = "open"
    /\ last_poll' = "notification"
    /\ reads' = Inc(reads)
    /\ notification' = packets
    /\ surfaced' = LoggedSignatures(FilterMapDecode(packets))
    /\ IF IndexPanics(FilterMapDecode(packets))
       THEN Abort("index out of bounds")
       ELSE /\ pc' = "wait"
            /\ UNCHANGED <<panic_msg, bundle_results_subscription>>
    /\ UNCHANGED <<config, tip_accounts, gateVars, buildVars, sendVars, stream>>

StreamError_KeepsReading ==
    /\ entry = "print_packet_stream" /\ pc = "wait"
    /\ stream = "open"
    /\ stream' = "errored"
    /\ last_poll' = "error"
    /\ reads' = Inc(reads)
    /\ pc' = "wait"
    /\ UNCHANGED <<config, panic_msg, tip_accounts, bundle_results_subscription,
                   gateVars, buildVars, sendVars, surfaced, notification>>

\* Ok(Some(Err(e))) => break
StreamError ==
    /\ entry = "print_packet_stream" /\ pc = "wait"
    /\ stream = "open"
    /\ stream' = "errored"
    /\ last_poll' = "error"
    /\ reads' = Inc(reads)
    /\ pc' = "returned"
    /\ UNCHANGED <<config, panic_msg, tip_accounts, bundle_results_subscription,
                   gateVars, buildVars, sendVars, surfaced, notification>>

\* Ok(None) => break
StreamClosed ==
    /\ entry = "print_packet_stream" /\ pc = "wait"
    /\ stream = "open"
    /\ stream' = "closed"
    /\ last_poll' = "closed"
    /\ reads' = Inc(reads)
    /\ pc' = "returned"
    /\ UNCHANGED <<config, panic_msg, tip_accounts, bundle_results_subscription,
                   gateVars, buildVars, sendVars, surfaced, notification>>

Timeout_NoProbe ==
    /\ entry = "print_packet_stream" /\ pc = "wait"
    /\ last_poll' = "elapsed"
    /\ pc' = "wait"
    /\ UNCHANGED <<config, panic_msg, tip_accounts, bundle_results_subscription,
                   gateVars, buildVars, sendVars, stream, reads, surfaced,
                   notification>>

\* Err(_): 5 s elapsed with no item; print_next_leader_info is called
Timeout ==
    /\ entry = "print_packet_stream" /\ pc = "wait"
    /\ last_poll' = "elapsed"
    /\ pc' = "leader_info"
    /\ UNCHANGED <<config, panic_msg, tip_accounts, bundle_results_subscription,
                   gateVars, buildVars, sendVars, stream, reads, surfaced,
                   notification>>

\* print_next_leader_info: the call returns Ok and the difference is printed
LeaderInfoOk(cur, next) ==
    /\ entry = "print_packet_stream" /\ pc = "leader_info"
    /\ probes' = Inc(probes)
    /\ IF overflow_checks /\ Underflows(next, cur)
       THEN Abort("attempt to subtract with overflow")
       ELSE /\ pc' = "wait"
            /\ UNCHANGED <<panic_msg, bundle_results_subscription>>
    /\ UNCHANGED <<config, tip_accounts, next_leader, num_slots, is_leader_slot, sleeps,
                   buildVars, sendVars, packetVars>>

\* print_next_leader_info: .expect("gets next scheduled leader")
LeaderInfoErr ==
    /\ entry = "print_packet_stream" /\ pc = "leader_info"
    /\ probes' = Inc(probes)
    /\ Abort("gets next scheduled leader")
    /\ UNCHANGED <<config, tip_accounts, next_leader, num_slots, is_leader_slot,
                   sleeps, buildVars, sendVars, packetVars>>

PacketNext ==
    \/ (\E packets \in Notifications : Notification(packets))
    \/ StreamError
    \/ StreamClosed
    \/ Timeout
    \/ LeaderInfoErr
    \/ (\E cur \in Slots, next \in Slots : LeaderInfoOk(cur, next))

PacketInit ==
    /\ entry = "print_packet_stream"
    /\ pc = "wait"
    /\ num_txs = NumTxs
    /\ lamports = Lamports
    /\ tip_account = NoKey
    /\ blockhash = NoHash
    /\ Idle

\* The event sources the program is suspended on at a position: the sleep of
\* the leader wait, the call of send_bundle_with_confirmation (it is handed
\* the result stream; main holds no pending-transaction stream), and
\* timeout(5 s, pending_transactions.next()).
Awaited(position) ==
    CASE position = "sleep" -> {"timer"}
      [] position = "confirming" -> {"bundle_results", "timer"}
      [] position = "wait" -> {"pending_transactions", "timer"}
      [] OTHER -> {}

(***************************************************************************)
(* The program: a run of main, or a run of print_packet_stream.            *)
(***************************************************************************)
Init == MainInit \/ PacketInit

Next == MainNext \/ PacketNext

Spec == Init /\ [][Next]_vars

\* The program takes its own steps (the loop condition after the sleep, the
\* build, the call of the send), the 5 s timer fires while the loop waits, and
\* a get_next_scheduled_leader call made after a timeout returns.  Nothing
\* obliges a stream to yield an item.
Fairness ==
    /\ WF_vars(SleepDone)
    /\ WF_vars(PickTipAccount)
    /\ WF_vars(BuildAndSign)
    /\ WF_vars(SendBundle)
    /\ WF_vars(Timeout)
    /\ WF_vars((\E cur \in Slots, next \in Slots : LeaderInfoOk(cur, next)) \/ LeaderInfoErr)

LiveSpec == Spec /\ Fairness

(***************************************************************************)
(* The bundle construction alone, on every num_txs, tip account, tip       *)
(* amount and recency token.                                               *)
(***************************************************************************)
BuildInit ==
    /\ entry = "build"
    /\ pc = "build"
    /\ num_txs \in 0 .. MaxNumTxsArg
    /\ lamports \in {1, Lamports}
    /\ tip_account \in {PubkeyFromStr("TipA"), PubkeyFromStr("TipB")}
    /\ blockhash \in Blockhashes
    /\ Idle

BuildNext == BuildAndSign

BuildSpec == BuildInit /\ [][BuildNext]_vars

(***************************************************************************)
(* Properties                                                              *)
(***************************************************************************)
Built == transaction # NoTx
Submitted == submissions > 0
LastProbeNear ==
    /\ next_leader # NoLeader
    /\ WrappingSub(next_leader[2], next_leader[1]) <= LeaderThreshold

\* C1: in a run of main, a transaction is built and the bundle submitted only
\* after a probe answered with next_leader_slot - current_slot <= 2 (as the
\* u64 subtraction computes it).
C1_SubmitOnlyAfterNearProbe ==
    (entry = "main" /\ (pc \in {"pick_tip", "get_blockhash", "build", "send", "confirming", "done"}
                        \/ Built \/ Submitted))
        => LastProbeNear

\* C1 witness: the bundle went out after the gate was polled more than once.
C1_Witness ==
    /\ entry = "main" /\ pc = "confirming"
    /\ submissions = 1 /\ probes >= 2 /\ num_slots <= LeaderThreshold

AllStampedWith(hash) ==
    /\ transaction.recent_blockhash = hash
    /\ \A i \in 1 .. Len(txs) : txs[i].message.recent_blockhash = hash
    /\ \A i \in 1 .. Len(signatures) :
           signatures[i][Len(signatures[i])].recent_blockhash = hash

\* C2: the blockhash is fetched exactly once, after the gate and before any
\* signing; every transaction is signed with that blockhash; the submission
\* comes after signing and serialization.
C2_OrderedSteps ==
    entry = "main" =>
        /\ fetches <= 1
        /\ fetches = 1 => (is_leader_slot /\ LastProbeNear)
        /\ Built => (fetches = 1 /\ blockhash \in Blockhashes /\ AllStampedWith(blockhash))
        /\ ~Built => (txs = <<>> /\ signatures = <<>> /\ ~Submitted)
        /\ Submitted => (Built /\ Len(transaction.signatures) = 1
                         /\ signatures = <<Serialize(transaction)>>)

\* C2 witness: a signed, serialized and submitted bundle.
C2_Witness ==
    /\ entry = "main" /\ Submitted /\ Built
    /\ fetches = 1 /\ transaction.recent_blockhash = MaxBlockhash

\* C3: while a probe answers > 2 the workflow goes back to probing and builds
\* and sends nothing; once a probe answered <= 2 no further probe is made; and
\* once the blockhash is fetched the send is eventually reached.
C3_PollsThenProceeds ==
    /\ [][(entry = "main" /\ pc = "sleep" /\ ~is_leader_slot)
            => (pc' = "probe" /\ UNCHANGED <<buildVars, sendVars>>)]_vars
    /\ [][is_leader_slot => probes' = probes]_vars
    /\ ((entry = "main" /\ pc = "build") ~> Submitted)

\* C3 witness: polled at least twice, then the gate passed and the bundle was sent.
C3_Witness ==
    /\ entry = "main" /\ is_leader_slot /\ probes >= 2 /\ sleeps >= 2 /\ Submitted

IsTipTransfer(ins, tip, amount) ==
    ins = Transfer(PayerPubkey, tip, amount)

\* C4: the submitted bundle holds exactly num_txs transactions, each with one
\* tip transfer of `lamports` to the tip account, all with one blockhash.
C4_BundleHasNumTxs ==
    (entry = "main" /\ Submitted) =>
        /\ Len(signatures) = num_txs
        /\ Len(txs) = num_txs
        /\ \A i \in 1 .. Len(signatures) :
             LET msg == signatures[i][Len(signatures[i])]
             IN  /\ Cardinality({k \in 1 .. Len(msg.instructions) :
                        IsTipTransfer(msg.instructions[k], tip_account, lamports)}) = 1
                 /\ msg.recent_blockhash = blockhash

C6_AtMostOneSubmission ==
    /\ submissions <= 1
    /\ in_flight <= 1
    /\ in_flight > 0 => pc = "confirming"

\* C6 witness: the submission failed and was not repeated.
C6_Witness ==
    /\ pc = "panicked" /\ panic_msg = "Sending bundle failed"
    /\ submissions = 1 /\ in_flight = 0

InPacketLoop == entry = "print_packet_stream"

\* C7 as stated: each timeout makes exactly one probe call and no submission,
\* after which the loop waits again; a delivered item makes no probe call.
C7_TimeoutProbesOnceAndWaits ==
    /\ [][(InPacketLoop /\ pc = "wait" /\ last_poll' = "elapsed")
            => (pc' = "leader_info" /\ probes' = probes /\ submissions' = submissions)]_vars
    /\ [][(InPacketLoop /\ pc = "leader_info")
            => (probes' = Inc(probes) /\ submissions' = submissions /\ pc' = "wait")]_vars
    /\ [][(InPacketLoop /\ pc = "wait" /\ last_poll' # "elapsed") => probes' = probes]_vars

\* C7 amended: each timeout makes exactly one probe call and no submission;
\* the loop waits again when that call succeeds and its slot difference does
\* not abort, and the run ends in a panic otherwise; a delivered item makes no
\* probe call.
C7_TimeoutProbesOnce ==
    /\ [][(InPacketLoop /\ pc = "wait" /\ last_poll' = "elapsed")
            => (pc' = "leader_info" /\ probes' = probes /\ submissions' = submissions)]_vars
    /\ [][(InPacketLoop /\ pc = "leader_info")
            => /\ probes' = Inc(probes)
               /\ submissions' = submissions
               /\ \/ pc' = "wait" /\ panic_msg' = "" /\ stream' = stream
                  \/ /\ pc' = "panicked"
                     /\ panic_msg' \in {"gets next scheduled leader",
                                        "attempt to subtract with overflow"}]_vars
    /\ [][(InPacketLoop /\ pc = "wait" /\ last_poll' # "elapsed") => probes' = probes]_vars

\* C7 witness: two timeouts were answered by two probes and the loop waits.
C7_Witness ==
    /\ InPacketLoop /\ pc = "wait" /\ last_poll = "elapsed"
    /\ probes = 2 /\ reads = 0 /\ submissions = 0

\* C8: when the stream closes or yields an error the loop ends there: the
\* function has returned (it did not panic) and no further item is read and
\* no further probe is made.
C8_StreamEndEndsLoop ==
    /\ [](stream # "open" => (pc = "returned" /\ panic_msg = ""))
    /\ [][stream # "open" => UNCHANGED <<pc, reads, probes, last_poll, surfaced>>]_vars

\* C8 witness: the stream failed after a notification and a timeout.
C8_Witness ==
    /\ InPacketLoop /\ stream = "errored" /\ pc = "returned"
    /\ reads >= 2 /\ probes >= 1

\* C9: the wait always terminates, also on a stream that stays silent.
C9_WaitTerminates ==
    InPacketLoop => <>(pc \in {"returned", "panicked"})

ProbeFailed == panic_msg = "gets next scheduled leader"
SubmitFailed == panic_msg = "Sending bundle failed"

\* C10: a failed probe call (in the gate or after a timeout) and a failed
\* submission end the run: no probe, blockhash fetch, build, submission or
\* stream read follows.
C10_ErrorsAbort ==
    /\ []((ProbeFailed \/ SubmitFailed) => pc = "panicked")
    /\ [][(ProbeFailed \/ SubmitFailed)
            => UNCHANGED <<pc, probes, sleeps, fetches, transaction, txs, signatures,
                           submissions, in_flight, reads, last_poll>>]_vars

\* C10 witness: the gate's second probe failed.
C10_Witness ==
    /\ entry = "main" /\ ProbeFailed /\ pc = "panicked" /\ probes = 2 /\ ~Built

Decodes(p) == Len(VersionedTxFromPacket(p)) = 1
DecodablePackets(packets) == SelectSeq(packets, Decodes)

\* C11: after a notification the logged transactions are exactly the packets
\* that decode, in packet order, and the loop waits again without an error.
C11_SurfacesDecodable ==
    (InPacketLoop /\ last_poll = "notification") =>
        /\ pc = "wait"
        /\ panic_msg = ""
        /\ Len(surfaced) = Len(DecodablePackets(notification))
        /\ \A i \in 1 .. Len(surfaced) :
               surfaced[i].message = DecodablePackets(notification)[i]

\* C12: wherever the program waits for a stream event it awaits the
\* bundle-result stream, the pending-transaction stream and the timer
\* together, so that neither stream can starve the other.
C12_AwaitsAllThree ==
    pc \in {"confirming", "wait"}
        => Awaited(pc) = {"bundle_results", "pending_transactions", "timer"}

\* C15: no sleep follows the probe that passes the gate: once is_leader_slot
\* is set, the workflow goes on to the blockhash without sleeping.
C15_NoSleepAfterPassingProbe ==
    [][(entry = "main" /\ is_leader_slot) => sleeps' = sleeps]_vars

\* first signature of a serialized transaction: after the length prefix
FirstSignatureOfWire(wire) == wire[2]

\* C16: the bundle signatures and the serialized transactions handed to the
\* send have the same length and order, and the i-th signature is the first
\* signature of the i-th serialized transaction.
C16_SignaturesMatchTransactions ==
    /\ Len(txs) = Len(signatures)
    /\ \A i \in 1 .. Len(signatures) :
           /\ signatures[i][1] >= 1
           /\ txs[i] = FirstSignatureOfWire(signatures[i])
           /\ txs[i].message = signatures[i][Len(signatures[i])]

\* C16 witness: the two vectors were handed to the send.
C16_Witness ==
    /\ entry = "main" /\ pc = "confirming" /\ Len(txs) = 1 /\ Len(signatures) = 1

\* C17: a probe answer with next_leader_slot < current_slot never passes the
\* gate: nothing is built or submitted after it.
C17_UnderflowNeverPasses ==
    (entry = "main" /\ next_leader # NoLeader
                    /\ Underflows(next_leader[2], next_leader[1]))
        => (~is_leader_slot /\ ~Built /\ ~Submitted)

\* C18: the result subscription is open when the bundle is submitted and
\* while the confirmation is awaited.
C18_SubscribedWhileSubmitted ==
    /\ (entry = "main" /\ pc \in {"probe", "sleep", "pick_tip", "get_blockhash",
                                  "build", "send", "confirming"})
           => bundle_results_subscription
    /\ in_flight > 0 => bundle_results_subscription
    /\ (Submitted /\ ~bundle_results_subscription) => pc \in {"done", "panicked"}

\* C18 witness: the bundle is out and the subscription is held.
C18_Witness ==
    /\ entry = "main" /\ pc = "confirming" /\ in_flight = 1
    /\ bundle_results_subscription

TipRecipients(wire) ==
    LET msg == wire[Len(wire)]
    IN  {msg.instructions[k].to : k \in {j \in 1 .. Len(msg.instructions) :
                                            msg.instructions[j].to # RecipientPubkey}}

ReturnedTipAccounts ==
    {PubkeyFromStr(tip_accounts[i]) : i \in 1 .. Len(tip_accounts)}

\* C19: the tip recipient of every submitted transaction is an account of the
\* get_tip_accounts answer of the run; with an empty answer the run aborts
\* and nothing is built or submitted.
C19_TipAccountFromRelay ==
    entry = "main" =>
        /\ \A i \in 1 .. Len(signatures) :
               /\ TipRecipients(signatures[i]) # {}
               /\ TipRecipients(signatures[i]) \subseteq ReturnedTipAccounts
        /\ (tip_accounts = <<>> /\ pc \notin {"read_keypairs", "connect", "get_tip_accounts",
                                             "get_balance", "subscribe", "probe",
                                             "sleep", "pick_tip"})
               => (pc = "panicked" /\ ~Built /\ ~Submitted)

\* C19 witness: submitted with the first of two returned accounts as recipient.
C19_Witness ==
    /\ entry = "main" /\ Submitted /\ tip_accounts = <<"TipA", "TipB">>
    /\ TipRecipients(signatures[1]) = {PubkeyFromStr("TipA")}

\* C14: once the bundle identity is Confirmed or Failed, a later result event
\* (a duplicate Accepted or any other outcome) leaves the state unchanged
\* and raises no error.
C14_TerminalIsIdempotent ==
    [][(result_state \in TerminalStates)
          => /\ result_state' = result_state
             /\ (late_event' # late_event => (pc' = pc /\ panic_msg' = panic_msg))]_vars

\* C14 witness: Confirmed, and a further event was delivered afterwards.
C14_Witness ==
    /\ entry = "main" /\ pc = "confirming"
    /\ result_state = "Confirmed" /\ late_event
====
